---- MODULE Spec2Model ----
(***************************************************************************)
(* Outline builder of src/pdf/headers.py: extract_headers and the helpers  *)
(* it calls.  Python strings are sequences of one-character strings;       *)
(* tuples (level, header) are 2-tuples; the counters dict is a function    *)
(* whose DOMAIN is the set of keys present.                                *)
(***************************************************************************)
EXTENDS Integers, Sequences, FiniteSets, TLC

VARIABLES markdown, pc, headers, levels, offset, title, min_level, has_title,
          counters, previous_level, idx, current_level, num,
          formatted_headers, effs, nums, result,
          calls, view, arg, ret,
          tokens, max_chunk_tokens, chunks

vars == <<markdown, pc, headers, levels, offset, title, min_level, has_title,
          counters, previous_level, idx, current_level, num,
          formatted_headers, effs, nums, result,
          calls, view, arg, ret,
          tokens, max_chunk_tokens, chunks>>

\* what lies outside one run of extract_headers: the finished invocations,
\* the view call of the handler, and the argument and result of a direct
\* call of clean_header_text
outer == <<calls, view, arg, ret, tokens, max_chunk_tokens, chunks>>

\* the arguments and the result of a call of Summarizer.chunk_text
chunking == <<tokens, max_chunk_tokens, chunks>>

(* ------------------------------ bounds --------------------------------- *)

\* longest markdown text, in lines
MaxLines == 5

\* deepest run of '#' in an input heading line
MaxRawLevel == 4

\* longest markdown text of a repeated invocation, in lines
SmallMaxLines == 2

\* number of finished invocations that are followed by another one
MaxCalls == 2

\* longest argument of a direct call of clean_header_text, in characters
MaxTextLen == 4

\* longest token sequence handed to chunk_text
MaxTokens == 5

\* largest max_chunk_tokens handed to chunk_text
MaxChunkTokens == 3

\* deepest run of '#' of the deeply nested texts
DeepLevel == 8

\* number of free heading lines after the nested chain of such a text
DeepTail == 3

(* ------------------------- string primitives --------------------------- *)

\* characters removed by str.strip() without argument
Whitespace == {" ", "\t"}

\* the argument of .strip(' *.0123456789 ') in clean_header_text
CleanChars == {" ", "*", ".", "0", "1", "2", "3", "4", "5", "6", "7", "8", "9"}

Digits == <<"0", "1", "2", "3", "4", "5", "6", "7", "8", "9">>

RECURSIVE IntToStr(_)
\* str(n) for n >= 0
IntToStr(n) ==
    IF n < 10 THEN <<Digits[n + 1]>>
    ELSE IntToStr(n \div 10) \o <<Digits[(n % 10) + 1]>>

\* s.lstrip(chars)
LStrip(s, chars) ==
    IF \A i \in 1..Len(s) : s[i] \in chars THEN <<>>
    ELSE LET k == CHOOSE i \in 1..Len(s) :
                      /\ s[i] \notin chars
                      /\ \A j \in 1..(i - 1) : s[j] \in chars
         IN  SubSeq(s, k, Len(s))

\* s.rstrip(chars)
RStrip(s, chars) ==
    IF \A i \in 1..Len(s) : s[i] \in chars THEN <<>>
    ELSE LET k == CHOOSE i \in 1..Len(s) :
                      /\ s[i] \notin chars
                      /\ \A j \in (i + 1)..Len(s) : s[j] \in chars
         IN  SubSeq(s, 1, k)

\* s.strip(chars)
Strip(s, chars) == RStrip(LStrip(s, chars), chars)

\* s.startswith(c) for a one-character c
StartsWith(s, c) == Len(s) >= 1 /\ s[1] = c

\* s.count(c) for a one-character c
CountChar(s, c) == Cardinality({i \in 1..Len(s) : s[i] = c})

RECURSIVE Join(_, _)
\* sep.join(parts)
Join(parts, sep) ==
    IF parts = <<>> THEN <<>>
    ELSE IF Len(parts) = 1 THEN parts[1]
    ELSE parts[1] \o sep \o Join(Tail(parts), sep)

Min(S) == CHOOSE x \in S : \A y \in S : x <= y

Max2(a, b) == IF a >= b THEN a ELSE b

Min2(a, b) == IF a <= b THEN a ELSE b

\* Python's None (title before and without detection); falsy like ""
None == <<>>

\* "No valid headers identified."
Sentinel == <<"N", "o", " ", "v", "a", "l", "i", "d", " ",
              "h", "e", "a", "d", "e", "r", "s", " ",
              "i", "d", "e", "n", "t", "i", "f", "i", "e", "d", ".">>

\* "Title: "
TitlePrefix == <<"T", "i", "t", "l", "e", ":", " ">>

(* ------------------------------ inputs --------------------------------- *)

RECURSIVE Hashes(_)
Hashes(k) == IF k = 0 THEN <<>> ELSE <<"#">> \o Hashes(k - 1)

\* lines of the rendered markdown: heading lines "#..# A" of every depth,
\* an indented heading line "\t# 1. B*" and one body line " A#" that holds
\* a '#' but does not start with one
InputLines == {Hashes(k) \o <<" ", "A">> : k \in 1..MaxRawLevel}
                \cup {<<"\t", "#", " ", "1", ".", " ", "B", "*">>}
                \cup {<<" ", "A", "#">>}

\* lines of the texts of repeated invocations: two heading depths and a
\* heading line "# A#" whose text holds a '#'
SmallLines == {<<"#", " ", "A">>, <<"#", "#", " ", "A">>, <<"#", " ", "A", "#">>}

\* characters of the arguments of a direct call of clean_header_text: the
\* marker, stripped punctuation, a digit, both kinds of whitespace, a letter
TextChars == {"#", "*", ".", "1", " ", "\t", "A"}

\* heading lines "# A", "## A", ... of increasing depth, n of them
Chain(n) == [i \in 1..n |-> Hashes(i) \o <<" ", "A">>]

\* heading lines of the deeply nested texts
DeepLines == {Hashes(k) \o <<" ", "A">> : k \in 1..DeepLevel}

RECURSIVE SeqsUpTo(_, _)
SeqsUpTo(S, n) ==
    IF n = 0 THEN {<<>>}
    ELSE LET shorter == SeqsUpTo(S, n - 1)
         IN  shorter \cup {Append(s, x) : s \in {t \in shorter : Len(t) = n - 1}, x \in S}

(* --------------------------- pure functions ---------------------------- *)

\* clean_header_text(header)
clean_header_text_Slice(header) ==
    Strip(Strip(SubSeq(header, 2, Len(header)), CleanChars), Whitespace)

clean_header_text(header) ==
    Strip(Strip(LStrip(header, {"#"}), CleanChars), Whitespace)

\* the list comprehension of extract_headers that keeps the heading lines
HeaderLines_NoFilter(text) ==
    [i \in 1..Len(text) |-> Strip(text[i], Whitespace)]

HeaderLines(text) ==
    LET stripped == [i \in 1..Len(text) |-> Strip(text[i], Whitespace)]
        IsHeader(line) == StartsWith(line, "#")
    IN  SelectSeq(stripped, IsHeader)

\* levels = [(header.count('#'), header) for header in headers]
RawLevels(hs) == [i \in 1..Len(hs) |-> <<CountChar(hs[i], "#"), hs[i]>>]

\* offset = first_level - 1, first_level = levels[0][0]
Offset_GlobalMin(lv) == Min({lv[i][1] : i \in 1..Len(lv)}) - 1

Offset(lv) == lv[1][1] - 1

\* normalize_header_levels(headers_with_levels, offset)
normalize_header_levels_NoFloor(headers_with_levels, off) ==
    [i \in 1..Len(headers_with_levels) |->
        <<headers_with_levels[i][1] - off, headers_with_levels[i][2]>>]

normalize_header_levels(headers_with_levels, off) ==
    [i \in 1..Len(headers_with_levels) |->
        <<Max2(headers_with_levels[i][1] - off, 1), headers_with_levels[i][2]>>]

\* keys of counters that calculate_numbering reads
NumberingKeys(level, title_exists, min_lvl) ==
    IF title_exists /\ level = min_lvl + 1 THEN {2}
    ELSE IF title_exists /\ level = min_lvl + 2 THEN {2, 3}
    ELSE 1..level

\* calculate_numbering(counters, level, title_exists, min_level)
calculate_numbering_NoTitleLevel2Short(c, level, title_exists, min_lvl) ==
    IF title_exists
    THEN IF level = min_lvl + 1 THEN IntToStr(c[2])
         ELSE IF level = min_lvl + 2
              THEN IntToStr(c[2]) \o <<".">> \o IntToStr(c[3])
              ELSE Join([i \in 1..level |-> IntToStr(c[i])], <<".">>)
    ELSE IF level = 1 THEN IntToStr(c[1])
         ELSE IF level = 2
              THEN IntToStr(c[2])
              ELSE IF level = 3
                   THEN IntToStr(c[1]) \o <<".">> \o IntToStr(c[2])
                            \o <<".">> \o IntToStr(c[3])
                   ELSE Join([i \in 1..level |-> IntToStr(c[i])], <<".">>)

calculate_numbering_TitleFirstCounter(c, level, title_exists, min_lvl) ==
    IF title_exists
    THEN IF level = min_lvl + 1 THEN IntToStr(c[1])
         ELSE IF level = min_lvl + 2
              THEN IntToStr(c[1]) \o <<".">> \o IntToStr(c[2])
              ELSE Join([i \in 1..level |-> IntToStr(c[i])], <<".">>)
    ELSE IF level = 1 THEN IntToStr(c[1])
         ELSE IF level = 2
              THEN IntToStr(c[1]) \o <<".">> \o IntToStr(c[2])
              ELSE IF level = 3
                   THEN IntToStr(c[1]) \o <<".">> \o IntToStr(c[2])
                            \o <<".">> \o IntToStr(c[3])
                   ELSE Join([i \in 1..level |-> IntToStr(c[i])], <<".">>)

calculate_numbering(c, level, title_exists, min_lvl) ==
    IF title_exists
    THEN IF level = min_lvl + 1 THEN IntToStr(c[2])
         ELSE IF level = min_lvl + 2
              THEN IntToStr(c[2]) \o <<".">> \o IntToStr(c[3])
              ELSE Join([i \in 1..level |-> IntToStr(c[i])], <<".">>)
    ELSE IF level = 1 THEN IntToStr(c[1])
         ELSE IF level = 2
              THEN IntToStr(c[1]) \o <<".">> \o IntToStr(c[2])
              ELSE IF level = 3
                   THEN IntToStr(c[1]) \o <<".">> \o IntToStr(c[2])
                            \o <<".">> \o IntToStr(c[3])
                   ELSE Join([i \in 1..level |-> IntToStr(c[i])], <<".">>)

\* counters[k] = v on a dict: the key is created when absent
Put(c, k, v) == [x \in (DOMAIN c) \cup {k} |-> IF x = k THEN v ELSE c[x]]

\* counters[level] += 1 raises KeyError when the key is absent
UpdateRaises_AnyAbsent(c, level, prev) == level \notin DOMAIN c

UpdateRaises(c, level, prev) == level <= prev /\ level \notin DOMAIN c

\* update_counters(counters, level, previous_level)
update_counters_NoReset(c, level, prev) ==
    IF level = prev THEN Put(c, level, c[level] + 1)
    ELSE IF level > prev THEN Put(c, level, 1)
    ELSE Put(c, level, c[level] + 1)

update_counters_RestartOnReturn(c, level, prev) ==
    LET bumped == IF level = prev THEN Put(c, level, c[level] + 1)
                  ELSE Put(c, level, 1)
    IN  [x \in (DOMAIN bumped) \cup ((level + 1)..6) |->
            IF x \in (level + 1)..6 THEN 0 ELSE bumped[x]]

update_counters_AscendZero(c, level, prev) ==
    LET bumped == IF level = prev THEN Put(c, level, c[level] + 1)
                  ELSE IF level > prev THEN Put(c, level, 0)
                  ELSE Put(c, level, c[level] + 1)
    IN  [x \in (DOMAIN bumped) \cup ((level + 1)..6) |->
            IF x \in (level + 1)..6 THEN 0 ELSE bumped[x]]

update_counters(c, level, prev) ==
    LET bumped == IF level = prev THEN Put(c, level, c[level] + 1)
                  ELSE IF level > prev THEN Put(c, level, 1)
                  ELSE Put(c, level, c[level] + 1)
    IN  [x \in (DOMAIN bumped) \cup ((level + 1)..6) |->
            IF x \in (level + 1)..6 THEN 0 ELSE bumped[x]]

\* process_title_detection(levels): the returned (levels, title, min_level)
process_title_detection_FirstOfMin(lv) ==
    LET m == Min({lv[i][1] : i \in 1..Len(lv)})
        IsMin(p) == p[1] = m
        headers_min_level == SelectSeq(lv, IsMin)
        Other(p) == p[2] # headers_min_level[1][2]
    IN  [levels    |-> SelectSeq(lv, Other),
         title     |-> TitlePrefix \o clean_header_text(headers_min_level[1][2]),
         min_level |-> m]

process_title_detection_FilterCleaned(lv) ==
    LET m == Min({lv[i][1] : i \in 1..Len(lv)})
        IsMin(p) == p[1] = m
        headers_min_level == SelectSeq(lv, IsMin)
        Other(p) == clean_header_text(p[2]) # clean_header_text(headers_min_level[1][2])
    IN  IF Len(headers_min_level) = 1
        THEN [levels    |-> SelectSeq(lv, Other),
              title     |-> TitlePrefix \o clean_header_text(headers_min_level[1][2]),
              min_level |-> m]
        ELSE [levels |-> lv, title |-> None, min_level |-> m]

process_title_detection(lv) ==
    LET m == Min({lv[i][1] : i \in 1..Len(lv)})
        IsMin(p) == p[1] = m
        headers_min_level == SelectSeq(lv, IsMin)
        Other(p) == p[2] # headers_min_level[1][2]
    IN  IF Len(headers_min_level) = 1
        THEN [levels    |-> SelectSeq(lv, Other),
              title     |-> TitlePrefix \o clean_header_text(headers_min_level[1][2]),
              min_level |-> m]
        ELSE [levels |-> lv, title |-> None, min_level |-> m]

\* current_level = min(current_level, previous_level + 1)
ClampLevel_NoClamp(level, prev) == level

ClampLevel(level, prev) == Min2(level, prev + 1)

\* counters = {i: 0 for i in range(1, 7)}
FreshCounters_Shared ==
    IF DOMAIN counters = {} THEN [i \in 1..6 |-> 0] ELSE counters

FreshCounters == [i \in 1..6 |-> 0]

\* TextAnalysisHandler.handle_headers: the view method chosen for the text
\* that get_headers returned
HandlerView_SentinelIsError(text) ==
    IF text # <<>> /\ text # Sentinel THEN "render_text_structure" ELSE "render_error"

HandlerView(text) ==
    IF text # <<>> THEN "render_text_structure" ELSE "render_error"

\* extract_headers, lines 150-159: output, the title line first, joined
RenderOutput_NoBlankLine(t, formatted) ==
    LET output == IF t # <<>> THEN <<t>> \o formatted ELSE formatted
    IN  Join(output, <<"\n">>)

RenderOutput(t, formatted) ==
    LET output == IF t # <<>> THEN <<<<"\n">> \o t>> \o formatted ELSE formatted
    IN  Join(output, <<"\n">>)

\* token ids that tokenizer.encode may return
TokenIds == {1, 2}

\* math.ceil(n / m) for n >= 0, m >= 1
CeilDiv(n, m) == (n + m - 1) \div m

\* Summarizer.chunk_text: the token slices tokens[i:i + max_tokens] for
\* i in range(0, len(tokens), max_tokens), before tokenizer.decode
chunk_text(toks, max_chunk) ==
    LET n          == Len(toks)
        max_tokens == CeilDiv(n, max_chunk)
    IN  [k \in 1..CeilDiv(n, max_tokens) |->
            SubSeq(toks, (k - 1) * max_tokens + 1, Min2(k * max_tokens, n))]

(* ------------------------------ actions -------------------------------- *)

\* chunk_text is not called
NoTokens == tokens = <<>> /\ max_chunk_tokens = 1

\* nothing has run yet: no local of extract_headers is bound, no invocation
\* has finished, the handler has rendered nothing
Start ==
    /\ headers = <<>>
    /\ levels = <<>>
    /\ offset = 0
    /\ title = None
    /\ min_level = 0
    /\ has_title = FALSE
    /\ counters = <<>>
    /\ previous_level = 0
    /\ idx = 0
    /\ current_level = 0
    /\ num = <<>>
    /\ formatted_headers = <<>>
    /\ effs = <<>>
    /\ nums = <<>>
    /\ result = None
    /\ calls = <<>>
    /\ view = "none"
    /\ ret = <<>>
    /\ chunks = <<>>

Init ==
    /\ markdown \in SeqsUpTo(InputLines, MaxLines)
    /\ pc = "extract"
    /\ arg = <<>>
    /\ NoTokens
    /\ Start

\* extract_headers, lines 129-137, no heading line: the sentinel is returned
ReturnSentinel ==
    /\ pc = "extract"
    /\ HeaderLines(markdown) = <<>>
    /\ headers' = HeaderLines(markdown)
    /\ result' = Sentinel
    /\ pc' = "done"
    /\ UNCHANGED <<markdown, levels, offset, title, min_level, has_title,
                   counters, previous_level, idx, current_level, num,
                   formatted_headers, effs, nums>>
    /\ UNCHANGED outer

\* extract_headers, lines 129-142: heading lines, their raw levels, the offset
ExtractLevels ==
    /\ pc = "extract"
    /\ HeaderLines(markdown) # <<>>
    /\ headers' = HeaderLines(markdown)
    /\ levels' = RawLevels(headers')
    /\ offset' = Offset(levels')
    /\ pc' = "normalize"
    /\ UNCHANGED <<markdown, title, min_level, has_title,
                   counters, previous_level, idx, current_level, num,
                   formatted_headers, effs, nums, result>>
    /\ UNCHANGED outer

\* extract_headers, line 145
Normalize ==
    /\ pc = "normalize"
    /\ levels' = normalize_header_levels(levels, offset)
    /\ pc' = "title"
    /\ UNCHANGED <<markdown, headers, offset, title, min_level, has_title,
                   counters, previous_level, idx, current_level, num,
                   formatted_headers, effs, nums, result>>
    /\ UNCHANGED outer

\* extract_headers, lines 148-156, and the entry of process_header_levels,
\* lines 81-83
DetectTitle ==
    /\ pc = "title"
    /\ IF levels = <<>>
       THEN \* min() of an empty sequence raises ValueError
            /\ pc' = "raised"
            /\ UNCHANGED <<levels, title, min_level, has_title, previous_level,
                           counters, idx, formatted_headers, effs, nums>>
       ELSE LET r == process_title_detection(levels)
            IN  /\ levels' = r.levels
                /\ title' = r.title
                /\ min_level' = r.min_level
                /\ has_title' = (r.title # <<>>)
                /\ previous_level' = r.min_level
                /\ counters' = FreshCounters
                /\ idx' = 0
                /\ formatted_headers' = <<>>
                /\ effs' = <<>>
                /\ nums' = <<>>
                /\ pc' = "number"
    /\ UNCHANGED <<markdown, headers, offset, current_level, num, result>>
    /\ UNCHANGED outer

\* one iteration of the loop of process_header_levels, lines 85-99
NumberHeader ==
    /\ pc = "number"
    /\ idx < Len(levels)
    /\ LET item  == levels[idx + 1]
           level == ClampLevel(item[1], previous_level)
           text  == clean_header_text(item[2])
       IN  IF UpdateRaises(counters, level, previous_level)
           THEN /\ pc' = "raised"
                /\ current_level' = level
                /\ UNCHANGED <<counters, num, formatted_headers, effs, nums,
                               previous_level, idx>>
           ELSE LET c == update_counters(counters, level, previous_level)
                IN  IF ~(NumberingKeys(level, has_title, min_level) \subseteq DOMAIN c)
                    THEN /\ pc' = "raised"
                         /\ current_level' = level
                         /\ counters' = c
                         /\ UNCHANGED <<num, formatted_headers, effs, nums,
                                        previous_level, idx>>
                    ELSE LET label == calculate_numbering(c, level, has_title, min_level)
                         IN  /\ counters' = c
                             /\ current_level' = level
                             /\ num' = label
                             /\ formatted_headers' =
                                    Append(formatted_headers, label \o <<".", " ">> \o text)
                             /\ effs' = Append(effs, level)
                             /\ nums' = Append(nums, label)
                             /\ previous_level' = level
                             /\ idx' = idx + 1
                             /\ pc' = "number"
    /\ UNCHANGED <<markdown, headers, levels, offset, title, min_level,
                   has_title, result>>
    /\ UNCHANGED outer

\* extract_headers, lines 150-159: the title line, the numbered lines, the join
Render ==
    /\ pc = "number"
    /\ idx = Len(levels)
    /\ result' = RenderOutput(title, formatted_headers)
    /\ pc' = "done"
    /\ UNCHANGED <<markdown, headers, levels, offset, title, min_level,
                   has_title, counters, previous_level, idx, current_level,
                   num, formatted_headers, effs, nums>>
    /\ UNCHANGED outer

\* TextAnalysisHandler.handle_headers after model.get_headers() came back:
\* an exception of extract_headers reaches it as RuntimeError
HandleHeaders ==
    /\ pc \in {"done", "raised"}
    /\ view = "none"
    /\ view' = IF pc = "raised" THEN "render_error" ELSE HandlerView(result)
    /\ UNCHANGED <<markdown, pc, headers, levels, offset, title, min_level,
                   has_title, counters, previous_level, idx, current_level,
                   num, formatted_headers, effs, nums, result, calls, arg, ret>>
    /\ UNCHANGED chunking

\* the next invocation of extract_headers, on any text: the finished one is
\* recorded; the locals keep their old values until the code assigns them
CallAgain ==
    /\ pc = "done"
    /\ Len(calls) < MaxCalls
    /\ calls' = Append(calls, [text |-> markdown, out |-> result])
    /\ markdown' \in SeqsUpTo(SmallLines, SmallMaxLines)
    /\ pc' = "extract"
    /\ view' = "none"
    /\ UNCHANGED <<headers, levels, offset, title, min_level,
                   has_title, counters, previous_level, idx, current_level,
                   num, formatted_headers, effs, nums, result, arg, ret>>
    /\ UNCHANGED chunking

Next ==
    \/ ReturnSentinel
    \/ ExtractLevels
    \/ Normalize
    \/ DetectTitle
    \/ NumberHeader
    \/ Render

Spec == Init /\ [][Next]_vars

\* repeated invocations through the handler
InitCalls ==
    /\ markdown \in SeqsUpTo(SmallLines, SmallMaxLines)
    /\ pc = "extract"
    /\ arg = <<>>
    /\ NoTokens
    /\ Start

NextCalls ==
    \/ ReturnSentinel
    \/ ExtractLevels
    \/ Normalize
    \/ DetectTitle
    \/ NumberHeader
    \/ Render
    \/ HandleHeaders
    \/ CallAgain

SpecCalls == InitCalls /\ [][NextCalls]_vars

\* deeply nested texts: a chain of headings, each one level deeper than
\* the one before, then a few headings of any depth
InitDeep ==
    /\ markdown \in {Chain(n) \o t : n \in 0..DeepLevel,
                                      t \in SeqsUpTo(DeepLines, DeepTail)}
    /\ pc = "extract"
    /\ arg = <<>>
    /\ NoTokens
    /\ Start

SpecDeep == InitDeep /\ [][Next]_vars

\* a direct call clean_header_text(arg)
CleanCall ==
    /\ pc = "clean"
    /\ ret' = clean_header_text(arg)
    /\ pc' = "cleaned"
    /\ UNCHANGED <<markdown, headers, levels, offset, title, min_level,
                   has_title, counters, previous_level, idx, current_level,
                   num, formatted_headers, effs, nums, result, calls, view, arg>>
    /\ UNCHANGED chunking

\* a second call, clean_header_text(ret), on the result of the first
CleanAgain ==
    /\ pc = "cleaned"
    /\ ret' = clean_header_text(ret)
    /\ pc' = "recleaned"
    /\ UNCHANGED <<markdown, headers, levels, offset, title, min_level,
                   has_title, counters, previous_level, idx, current_level,
                   num, formatted_headers, effs, nums, result, calls, view, arg>>
    /\ UNCHANGED chunking

InitClean ==
    /\ markdown = <<>>
    /\ pc = "clean"
    /\ arg \in SeqsUpTo(TextChars, MaxTextLen)
    /\ NoTokens
    /\ Start

NextClean ==
    \/ CleanCall
    \/ CleanAgain

SpecClean == InitClean /\ [][NextClean]_vars

\* a call Summarizer.chunk_text(text, max_chunk_tokens); with no token the
\* step of range() is 0 and range raises ValueError
ChunkText ==
    /\ pc = "chunk"
    /\ IF CeilDiv(Len(tokens), max_chunk_tokens) = 0
       THEN pc' = "raised" /\ UNCHANGED chunks
       ELSE pc' = "chunked" /\ chunks' = chunk_text(tokens, max_chunk_tokens)
    /\ UNCHANGED <<markdown, headers, levels, offset, title, min_level,
                   has_title, counters, previous_level, idx, current_level,
                   num, formatted_headers, effs, nums, result,
                   calls, view, arg, ret, tokens, max_chunk_tokens>>

InitChunk ==
    /\ markdown = <<>>
    /\ pc = "chunk"
    /\ arg = <<>>
    /\ tokens \in SeqsUpTo(TokenIds, MaxTokens)
    /\ max_chunk_tokens \in 1..MaxChunkTokens
    /\ Start

NextChunk == ChunkText

SpecChunk == InitChunk /\ [][NextChunk]_vars

(* ------------------------- derived quantities -------------------------- *)

\* the heading loop has numbered at least one heading and did not raise
Numbered == pc \in {"number", "done"} /\ idx > 0

\* effective level of the heading before the i-th numbered one
PrevEff(i) == IF i = 1 THEN min_level ELSE effs[i - 1]

\* number of headings numbered so far at effective level l
SeenAt(l) == Cardinality({i \in 1..Len(effs) : effs[i] = l})

\* number of headings at effective level l since the last one at level l - 1
SeenSinceParent(l) ==
    LET parents == {i \in 1..Len(effs) : effs[i] = l - 1}
        last    == IF parents = {} THEN 0
                   ELSE CHOOSE i \in parents : \A j \in parents : j <= i
    IN  Cardinality({i \in (last + 1)..Len(effs) : effs[i] = l})

\* raw level of the i-th heading line as extract_headers computes it
RawOf(i) == CountChar(headers[i], "#")

\* the normalized headings, before title detection rewrites levels
Normalized == normalize_header_levels(RawLevels(headers), RawOf(1) - 1)

\* positions of the headings at the minimum normalized level
MinPositions ==
    LET m == Min({Normalized[i][1] : i \in 1..Len(Normalized)})
    IN  {i \in 1..Len(Normalized) : Normalized[i][1] = m}

\* a sequence without its i-th element
RemoveAt(s, i) == SubSeq(s, 1, i - 1) \o SubSeq(s, i + 1, Len(s))

\* dot-join of counters[a] .. counters[b]
DotJoin(a, b) ==
    Join([i \in 1..(b - a + 1) |-> IntToStr(counters[a + i - 1])], <<".">>)

\* the text of a label after its last dot
LastComponent(label) ==
    LET dots == {i \in 1..Len(label) : label[i] = "."}
    IN  IF dots = {} THEN label
        ELSE SubSeq(label, (CHOOSE i \in dots : \A j \in dots : j <= i) + 1, Len(label))

\* no line of the markdown text is a heading line
NoHeadingLine ==
    \A i \in 1..Len(markdown) : ~StartsWith(Strip(markdown[i], Whitespace), "#")

(* ------------------------------- claims -------------------------------- *)

\* C1: every numbered heading has an effective level of at most the previous
\* heading's effective level + 1 (the first: at most min_level + 1), whatever
\* its normalized level; a normalized level-3 heading right after an
\* effective level-1 heading is numbered at effective level 2.
C1_ClampedLevel ==
    \A i \in 1..Len(effs) :
        /\ effs[i] <= PrevEff(i) + 1
        /\ (i > 1 /\ effs[i - 1] = 1 /\ levels[i][1] = 3) => effs[i] = 2

C1_Witness ==
    /\ Len(effs) >= 2
    /\ effs[Len(effs) - 1] = 1
    /\ levels[Len(effs)][1] = 3
    /\ effs[Len(effs)] = 2

\* C2: after every heading processed by update_counters the counter of
\* every level deeper than its effective level, up to 6, is 0.
C2_DeeperCountersZero ==
    Numbered =>
        \A x \in (current_level + 1)..6 : counters[x] = 0

C2_Witness ==
    /\ Numbered
    /\ \E i \in 1..Len(effs) : effs[i] = 3
    /\ current_level = 1
    /\ counters[1] = 2

\* C3: a title is extracted exactly when one heading has the minimum
\* normalized level; then that heading alone leaves the numbered sequence;
\* otherwise every heading stays, so at most one heading is a title.
C3_TitleIffUniqueMin ==
    pc \in {"number", "done", "raised"} =>
        /\ has_title <=> Cardinality(MinPositions) = 1
        /\ (title # None) <=> Cardinality(MinPositions) = 1
        /\ Cardinality(MinPositions) = 1 =>
               /\ levels = RemoveAt(Normalized, CHOOSE i \in MinPositions : TRUE)
               /\ title = TitlePrefix \o clean_header_text(
                              headers[CHOOSE i \in MinPositions : TRUE])
        /\ Cardinality(MinPositions) >= 2 => levels = Normalized
        /\ Len(levels) >= Len(headers) - 1

C3_Witness ==
    /\ pc = "done"
    /\ ~has_title
    /\ Cardinality(MinPositions) = 2
    /\ Len(headers) = 3
    /\ Len(nums) = 3

\* C4: without a title the label of every heading is the dot-join of
\* counters[1] .. counters[effective level], read after the update, at
\* every effective level.
C4_NoTitleLabel ==
    (Numbered /\ ~has_title) => num = DotJoin(1, current_level)

C4_Witness ==
    /\ Numbered
    /\ ~has_title
    /\ {effs[i] : i \in 1..Len(effs)} = {1, 2, 3, 4}
    /\ current_level = 4

\* C5: with a title, a heading at effective level min_level + k, k >= 3,
\* is labelled with the dot-join of counters[min_level + 1] ..
\* counters[effective level].
C5_TitleDeepLabel ==
    (Numbered /\ has_title /\ current_level >= min_level + 3) =>
        num = DotJoin(min_level + 1, current_level)

\* C6: the offset is the first heading's raw level - 1; the first heading
\* gets level 1, a heading deeper than the first by d gets 1 + d, a heading
\* at or above the first heading's raw level gets 1.
C6_OffsetFromFirst ==
    pc = "title" =>
        /\ offset = RawOf(1) - 1
        /\ Len(levels) = Len(headers)
        /\ levels[1][1] = 1
        /\ \A i \in 1..Len(headers) :
               /\ levels[i][2] = headers[i]
               /\ RawOf(i) > RawOf(1) => levels[i][1] = 1 + (RawOf(i) - RawOf(1))
               /\ RawOf(i) <= RawOf(1) => levels[i][1] = 1

C6_Witness ==
    /\ pc = "title"
    /\ \E i, j \in 2..Len(headers) :
           /\ RawOf(i) < RawOf(1)
           /\ RawOf(j) > RawOf(1)
           /\ levels[i][1] = 1
           /\ levels[j][1] = 2

\* C7: after normalization of a non-empty heading sequence the minimum
\* level is exactly 1 and no level is below 1.
C7_MinLevelOne ==
    pc = "title" =>
        /\ levels # <<>>
        /\ \A i \in 1..Len(levels) : levels[i][1] >= 1
        /\ \E i \in 1..Len(levels) : levels[i][1] = 1

C7_Witness ==
    /\ pc = "title"
    /\ RawOf(1) = 3
    /\ \E i \in 2..Len(headers) : RawOf(i) = 1 /\ levels[i][1] = 1

\* C8: a text without a heading line yields exactly the sentinel, with no
\* normalization, title detection or numbering, and nothing is raised.
C8_SentinelOnly ==
    NoHeadingLine =>
        /\ pc \in {"extract", "done"}
        /\ pc = "done" => result = Sentinel
        /\ headers = <<>> /\ levels = <<>> /\ title = None
        /\ counters = <<>> /\ formatted_headers = <<>> /\ nums = <<>>

C8_Witness ==
    /\ pc = "done"
    /\ result = Sentinel
    /\ Len(markdown) = 2

\* C9: without a title the i-th heading at effective level 1 is labelled
\* "i" and a heading at effective level 2 is labelled "n.k", n the number
\* of level-1 headings so far and k its position among the level-2
\* headings since the last level-1 heading.
C9_NoTitleNumbers ==
    (Numbered /\ ~has_title) =>
        /\ current_level = 1 => num = IntToStr(SeenAt(1))
        /\ current_level = 2 =>
               num = IntToStr(SeenAt(1)) \o <<".">> \o IntToStr(SeenSinceParent(2))

C9_Witness ==
    /\ pc = "done"
    /\ ~has_title
    /\ effs = <<1, 1, 2>>
    /\ nums = <<<<"1">>, <<"2">>, <<"2", ".", "1">>>>

\* C10: with a title the title heading is not numbered, the i-th remaining
\* heading at effective level 2 is labelled "i" and a heading at effective
\* level 3 is labelled "n.k", n the level-2 count and k its position among
\* the level-3 headings of that section.
C10_TitleNumbers ==
    (Numbered /\ has_title) =>
        /\ Len(levels) = Len(headers) - 1
        /\ \A i \in 1..Len(levels) : levels[i][1] > min_level
        /\ pc = "done" => Len(nums) = Len(headers) - 1
        /\ current_level = 2 => num = IntToStr(SeenAt(2))
        /\ current_level = 3 =>
               num = IntToStr(SeenAt(2)) \o <<".">> \o IntToStr(SeenSinceParent(3))

C10_Witness ==
    /\ pc = "done"
    /\ has_title
    /\ [i \in 1..Len(headers) |-> RawOf(i)] = <<1, 2, 2, 3>>
    /\ nums = <<<<"1">>, <<"2">>, <<"2", ".", "1">>>>

\* C11: a heading whose effective level is deeper than the previous
\* heading's effective level gets a label whose last component is 1,
\* however many headings were numbered at that level before.
C11_DeeperStartsAtOne ==
    \A i \in 1..Len(nums) :
        effs[i] > PrevEff(i) => LastComponent(nums[i]) = <<"1">>

C11_Witness ==
    /\ Numbered
    /\ effs = <<1, 2, 3, 1, 2>>
    /\ nums[2] = <<"1", ".", "1">>
    /\ nums[5] = <<"2", ".", "1">>

\* C12: the outline builder keeps no state between invocations: whenever
\* an invocation finishes on a text that an earlier invocation had, with
\* any other invocations in between, the two outputs are identical.
C12_SameInputSameOutput ==
    /\ \A i, j \in 1..Len(calls) :
           calls[i].text = calls[j].text => calls[i].out = calls[j].out
    /\ pc = "done" =>
           \A i \in 1..Len(calls) :
               calls[i].text = markdown => calls[i].out = result

C12_Witness ==
    /\ pc = "done"
    /\ Len(calls) = 2
    /\ calls[1].text = markdown
    /\ calls[2].text # markdown
    /\ Len(calls[2].text) = 2
    /\ Len(nums) = 2
    /\ calls[1].out = result

\* the extracted heading lines that are numbered: all of them, or all but
\* the one at the unique minimum level
NumberedHeadings ==
    IF Cardinality(MinPositions) = 1
    THEN RemoveAt(headers, CHOOSE i \in MinPositions : TRUE)
    ELSE headers

\* C13: heading order is preserved end to end: the numbered lines match
\* one-to-one, in document order, the extracted headings without the title
\* heading, and the i-th line carries the cleaned text of the i-th of them.
C13_OrderPreserved ==
    pc = "done" /\ headers # <<>> =>
        /\ Len(formatted_headers) = Len(NumberedHeadings)
        /\ Len(nums) = Len(NumberedHeadings)
        /\ \A i \in 1..Len(formatted_headers) :
               /\ levels[i][2] = NumberedHeadings[i]
               /\ formatted_headers[i] =
                      nums[i] \o <<".", " ">> \o clean_header_text(NumberedHeadings[i])

C13_Witness ==
    /\ pc = "done"
    /\ ~has_title
    /\ formatted_headers = << <<"1", ".", " ", "B">>,
                              <<"2", ".", " ", "A">>,
                              <<"2", ".", "1", ".", " ", "A">>,
                              <<"3", ".", " ", "B">> >>

RECURSIVE SplitOn(_, _)
\* s.split(sep) for a one-character sep
SplitOn(s, sep) ==
    LET at == {i \in 1..Len(s) : s[i] = sep}
    IN  IF at = {} THEN <<s>>
        ELSE LET k == Min(at)
             IN  <<SubSeq(s, 1, k - 1)>> \o SplitOn(SubSeq(s, k + 1, Len(s)), sep)

\* the numbered line "<label>. <text>" of the i-th numbered heading
NumberedLine(i) ==
    nums[i] \o <<".", " ">> \o clean_header_text(NumberedHeadings[i])

\* a label is made of digits and dots only
IsLabel(label) ==
    /\ label # <<>>
    /\ \A i \in 1..Len(label) : label[i] \in {Digits[d] : d \in 1..10} \cup {"."}

\* C14: with a title the output is an empty line, the line
\* "Title: <cleaned title text>", then one line "<label>. <text>" per
\* numbered heading; without a title it is those numbered lines alone;
\* the lines are joined by single newlines.
C14_RenderedLines ==
    pc = "done" /\ headers # <<>> =>
        LET lines == SplitOn(result, "\n")
            skip  == IF has_title THEN 2 ELSE 0
        IN  /\ Len(lines) = Len(nums) + skip
            /\ has_title =>
                   /\ lines[1] = <<>>
                   /\ lines[2] = TitlePrefix \o clean_header_text(
                                     headers[CHOOSE i \in MinPositions : TRUE])
            /\ \A i \in 1..Len(nums) :
                   /\ IsLabel(nums[i])
                   /\ lines[i + skip] = NumberedLine(i)

C14_Witness ==
    /\ pc = "done"
    /\ has_title
    /\ Len(nums) = 2
    /\ SplitOn(result, "\n") = << <<>>,
                                   <<"T", "i", "t", "l", "e", ":", " ", "B">>,
                                   <<"1", ".", " ", "A">>,
                                   <<"1", ".", "1", ".", " ", "A">> >>

\* number of consecutive leading '#' of a line
LeadingRun(s) == Len(s) - Len(LStrip(s, {"#"}))

\* C15: the raw level of every extracted heading line is the number of
\* consecutive leading '#' of its stripped form, also when the heading
\* text itself contains '#'.
C15_RawLevelIsLeadingRun ==
    pc = "normalize" =>
        \A i \in 1..Len(headers) : levels[i][1] = LeadingRun(headers[i])

\* C16 as stated: a text without '#' and without leading digits or
\* punctuation (leading whitespace counted with them, the reading most
\* favourable to the claim) is returned unchanged by clean_header_text.
C16_CleanTextUnchanged ==
    (/\ pc = "cleaned"
     /\ \A i \in 1..Len(arg) : arg[i] # "#"
     /\ arg # <<>> => arg[1] \notin CleanChars \cup Whitespace)
        => ret = arg

\* C16, amended: a text without '#' that neither begins nor ends with an
\* asterisk, a period, a digit or whitespace is returned unchanged by
\* clean_header_text.
C16_CleanFixedPoint ==
    (/\ pc = "cleaned"
     /\ \A i \in 1..Len(arg) : arg[i] # "#"
     /\ arg # <<>> => /\ arg[1] \notin CleanChars \cup Whitespace
                      /\ arg[Len(arg)] \notin CleanChars \cup Whitespace)
        => ret = arg

C16_Witness ==
    /\ pc = "cleaned"
    /\ arg = <<"A", "1", "A">>
    /\ ret = arg

\* C17: for every non-empty sequence of heading lines, of any raw levels
\* and in any order, also with more than 6 markers, normalization, title
\* detection, counter update and label computation finish without raising.
C17_NeverRaises ==
    /\ pc # "raised"
    /\ pc = "done" /\ headers # <<>> =>
           Len(nums) = Len(levels) /\ result # <<>>

C17_Witness ==
    /\ pc = "done"
    /\ \E i \in 1..(Len(effs) - 2) :
           effs[i] = 8 /\ effs[i + 1] = 7 /\ effs[i + 2] = 8
    /\ counters[7] = 2

\* C18: when get_headers returns the sentinel, handle_headers renders it
\* with render_text_structure and does not call render_error.
C18_SentinelIsRendered ==
    (pc = "done" /\ result = Sentinel /\ view # "none") =>
        view = "render_text_structure"

C18_Witness ==
    /\ pc = "done"
    /\ headers = <<>>
    /\ result = Sentinel
    /\ view = "render_text_structure"

\* C19: numbering a heading at effective level L after previous level P
\* adds exactly 1 to counters[L] when L <= P and makes it exactly 1 when
\* L > P, leaves the counters of all levels above L unchanged, and makes
\* L the previous level.
C19_CounterStep ==
    [][(pc = "number" /\ idx' = idx + 1) =>
          /\ current_level' <= previous_level =>
                 counters'[current_level'] = counters[current_level'] + 1
          /\ current_level' > previous_level => counters'[current_level'] = 1
          /\ \A x \in 1..(current_level' - 1) : counters'[x] = counters[x]
          /\ previous_level' = current_level']_vars

C19_Witness ==
    /\ Numbered
    /\ Len(effs) >= 4
    /\ effs[Len(effs) - 1] > current_level
    /\ counters[current_level] = 2
    /\ current_level = 2

\* C20 as stated: with a title, the labels of the levels min_level + 1 and
\* min_level + 2 are the dot-join of counters[1] .. counters[level].
C20_SpecialEqualsGeneral ==
    (/\ Numbered
     /\ has_title
     /\ current_level \in {min_level + 1, min_level + 2})
        => num = DotJoin(1, current_level)

\* C20, amended: with a title, in the extract_headers pipeline (min_level
\* is 1 there), the labels of the levels min_level + 1 and min_level + 2
\* are the dot-join of counters[min_level + 1] .. counters[level]; the
\* join of counters[1] .. counters[level] is that label after "0.".
C20_SpecialSkipsTitleLevel ==
    (/\ Numbered
     /\ has_title
     /\ current_level \in {min_level + 1, min_level + 2})
        => /\ min_level = 1
           /\ num = DotJoin(min_level + 1, current_level)
           /\ DotJoin(1, current_level) = <<"0", ".">> \o num

C20_Witness ==
    /\ Numbered
    /\ has_title
    /\ current_level = min_level + 2
    /\ num = <<"2", ".", "1">>
    /\ DotJoin(1, current_level) = <<"0", ".", "2", ".", "1">>

\* positions of the dots of a label
DotsOf(label) == {i \in 1..Len(label) : label[i] = "."}

\* a label without its last component
ParentLabel(label) ==
    SubSeq(label, 1, (CHOOSE i \in DotsOf(label) : \A j \in DotsOf(label) : j <= i) - 1)

\* C21: every emitted label with more than one component has its parent
\* label (the label without its last component) emitted earlier in the
\* same outline, with or without a title and at every depth.
C21_NoOrphanLabel ==
    \A i \in 1..Len(nums) :
        DotsOf(nums[i]) # {} =>
            \E j \in 1..(i - 1) : nums[j] = ParentLabel(nums[i])

\* C22: every effective level used for numbering lies in 1..6 and the
\* counter mapping has no key outside 1..6.
C22_LevelsWithinSix ==
    /\ \A i \in 1..Len(effs) : effs[i] \in 1..6
    /\ DOMAIN counters \subseteq 1..6

\* a heading line as extract_headers keeps it: stripped, starting with '#'
IsHeadingLine(x) == x = Strip(x, Whitespace) /\ StartsWith(x, "#")

\* C23: for every heading line the result of clean_header_text does not
\* begin with '#' and neither begins nor ends with an asterisk, a digit,
\* a period or a space.
C23_CleanedEnds ==
    (pc = "cleaned" /\ IsHeadingLine(arg) /\ ret # <<>>) =>
        /\ ret[1] \notin {"#"} \cup CleanChars
        /\ ret[Len(ret)] \notin CleanChars

\* C24: cleaning is idempotent: cleaning the cleaned text of a heading
\* line returns it unchanged.
C24_CleanIdempotent ==
    [][(pc = "cleaned" /\ pc' = "recleaned" /\ IsHeadingLine(arg)) => ret' = ret]_vars

RECURSIVE Concat(_)
\* the concatenation of a sequence of sequences
Concat(ss) == IF ss = <<>> THEN <<>> ELSE Head(ss) \o Concat(Tail(ss))

\* C25: chunk_text splits the tokens into consecutive chunks that cover
\* all tokens in order, each of at most max_chunk_tokens tokens.
C25_ChunksCoverAndFit ==
    pc = "chunked" =>
        /\ Concat(chunks) = tokens
        /\ \A k \in 1..Len(chunks) : Len(chunks[k]) <= max_chunk_tokens

\* C26: a detected title is the first heading in document order, and a
\* title is detected exactly when every later heading has a raw level
\* strictly greater than the raw level of the first heading.
C26_TitleIsFirstHeading ==
    (pc \in {"number", "done"} /\ headers # <<>>) =>
        /\ has_title =>
               /\ title = TitlePrefix \o clean_header_text(headers[1])
               /\ levels = Tail(Normalized)
        /\ has_title <=> \A i \in 2..Len(headers) : RawOf(i) > RawOf(1)

C26_Witness ==
    /\ pc = "done"
    /\ has_title
    /\ Len(headers) = 4
    /\ RawOf(1) = 2
    /\ \E i \in 2..4 : RawOf(i) = 4

\* C27: title removal takes exactly one heading out of the sequence: the
\* n - 1 others remain in their original order, also when another heading
\* has the same cleaned text as the title.
C27_RemovesExactlyOne ==
    (pc \in {"number", "done"} /\ headers # <<>> /\ has_title) =>
        /\ Len(levels) = Len(headers) - 1
        /\ \E p \in 1..Len(headers) : levels = RemoveAt(Normalized, p)

C27_Witness ==
    /\ pc = "done"
    /\ has_title
    /\ Len(headers) = 4
    /\ \A i \in 2..4 :
           clean_header_text(headers[i]) = clean_header_text(headers[1])

\* C28: the min_level handed to numbering is 1; under a title every heading
\* is numbered at effective level 2 or deeper and counters[1] stays 0.
C28_TitleLeavesLevelOne ==
    (pc \in {"number", "done"} /\ headers # <<>>) =>
        /\ min_level = 1
        /\ has_title =>
               /\ \A i \in 1..Len(effs) : effs[i] >= 2
               /\ counters[1] = 0

C28_Witness ==
    /\ pc = "done"
    /\ has_title
    /\ Len(effs) = 4
    /\ effs[2] = 3
    /\ effs[4] = 2
    /\ counters[2] = 2

\* C29: two consecutive headings with the same normalized level receive the
\* same effective level.
C29_EqualLevelsAreSiblings ==
    pc \in {"number", "done"} =>
        \A i \in 2..Len(effs) :
            levels[i][1] = levels[i - 1][1] => effs[i] = effs[i - 1]

\* C30: the labels of one outline are pairwise distinct.
C30_LabelsDistinct ==
    pc \in {"number", "done"} =>
        \A i, j \in 1..Len(nums) : i # j => nums[i] # nums[j]

C30_Witness ==
    /\ pc = "done"
    /\ has_title
    /\ Len(nums) = 4
    /\ nums[3] = <<"0", ".", "1", ".", "1", ".", "1">>
    /\ nums[4] = <<"2">>

====
